---- MODULE Spec2Model ----
(***************************************************************************)
(* Model of adapters/aider/generate.py: the cognitive-core generator of    *)
(* Aider configuration files.                                              *)
(*                                                                         *)
(* Texts are sequences of symbols.  A symbol is a string standing for one  *)
(* character (" ", "\n", "=", the double quote) or for a run of characters *)
(* that no operation of the program looks into (a literal such as          *)
(* "REASON=", a word such as "force push").  The literals are ASCII: "--"  *)
(* stands for the em dash of the source and "'" for its backquote.         *)
(***************************************************************************)
EXTENDS Naturals, Sequences, FiniteSets, TLC

VARIABLES
    pc,            \* position of the operation under study
    hookState,     \* <install-dir>/hooks/validate-bash.sh: absent, unreadable or present
    hook,          \* the hook file's content, as a sequence of items
    safety_rules,  \* value returned by _extract_safety_rules
    config_file,   \* --config-file: empty, not an existing file, or a file
    run_outcome,   \* how subprocess.run(["bash", "-c", cmd]) ended
    environ,       \* the environment of the shell after sourcing the file
    config,        \* the ConfigMap returned by load_config
    project_dir,   \* --project-dir, a path
    install_dir,   \* --install-dir, a path
    agents_exists, \* whether <install-dir>/agents is a directory
    agents_files,  \* its entries, other than artifacts this program writes
    template_exists, \* whether templates/CONVENTIONS.md.tmpl is a file
    disk,          \* the four artifacts in the project directory
    fault,         \* the artifact that cannot be written, and how writing it ends
    budget,        \* the number of invocations of the program still to come
    norepeat,      \* whether the session invokes each renderer at most once
    mode,          \* --mode of the current run
    todo,          \* the renderers the current run has still to invoke
    invoked,       \* the renderers the current run invoked, with what each did
    before,        \* the artifacts as the current run found them
    ran,           \* the renderers that wrote since the start, while none wrote twice
    last,          \* the renderer that wrote last
    twice,         \* the renderer that wrote twice in a row just now, if any
    disk0          \* the artifacts at the start

loadVars == <<config_file, run_outcome, environ>>
hookVars == <<hookState, hook>>
fsVars == <<project_dir, install_dir, agents_exists, agents_files, template_exists>>
sessionVars == <<fault, budget, norepeat, disk0>>
runVars == <<disk, mode, todo, invoked, before, ran, last, twice>>

vars == <<pc, hookVars, safety_rules, loadVars, config, fsVars, sessionVars, runVars>>

(***************************************************************************)
(* Generic helpers on texts.                                               *)
(***************************************************************************)
NL == "\n"
SP == " "
QUOTE == "\""

\* str.isspace() on the symbols used here
IsSpace(c) == c \in {SP, NL, "\t"}

RECURSIVE ConcatRange(_, _, _)
\* ss[lo] \o ... \o ss[hi], by halves
ConcatRange(ss, lo, hi) ==
    IF lo > hi THEN <<>>
    ELSE IF lo = hi THEN ss[lo]
    ELSE LET mid == (lo + hi) \div 2
         IN  ConcatRange(ss, lo, mid) \o ConcatRange(ss, mid + 1, hi)

\* concatenation of a sequence of texts
Concat(ss) == ConcatRange(ss, 1, Len(ss))

\* sep.join(parts), for a one-symbol separator
Join(sep, parts) ==
    Concat([n \in 1..Len(parts) |-> IF n = 1 THEN parts[n] ELSE <<sep>> \o parts[n]])

RECURSIVE LStrip(_)
LStrip(s) == IF s # <<>> /\ IsSpace(Head(s)) THEN LStrip(Tail(s)) ELSE s

RECURSIVE RStrip(_)
RStrip(s) ==
    IF s # <<>> /\ IsSpace(s[Len(s)]) THEN RStrip(SubSeq(s, 1, Len(s) - 1)) ELSE s

\* str.strip()
Strip(s) == RStrip(LStrip(s))

\* all sequences over S of length at most n
SeqsUpTo(S, n) == UNION {[1..k -> S] : k \in 0..n}

(***************************************************************************)
(* _default_safety_rules: the twelve built-in rules, newline-joined.       *)
(***************************************************************************)
DefaultRuleLines == <<
    <<"- NEVER execute: rm -rf targeting system-critical paths (/, /etc, /usr, /var, /home)">>,
    <<"- NEVER execute: git push --force to main/master">>,
    <<"- NEVER execute: git reset --hard (destructive, may lose work)">>,
    <<"- NEVER execute: DROP TABLE or TRUNCATE TABLE">>,
    <<"- NEVER execute: DELETE FROM without WHERE clause">>,
    <<"- NEVER execute: rm .git directory">>,
    <<"- NEVER execute: chmod 777 (insecure permissions)">>,
    <<"- NEVER execute: git clean -f without -n dry-run">>,
    <<"- NEVER pipe curl/wget output to sh/bash (supply chain risk)">>,
    <<"- NEVER use base64 -d | sh (encoded command execution)">>,
    <<"- NEVER use eval with command substitution">>,
    <<"- NEVER pipe environment variables to external commands">> >>

_default_safety_rules == Join(NL, DefaultRuleLines)

(***************************************************************************)
(* The hook file.  Its content is a sequence of items: a marker line       *)
(* REASON="Blocked: <reason>" or one raw piece of text.  A raw piece is a  *)
(* quote, a newline, a word, or a marker prefix REASON="Blocked: that      *)
(* nothing closes.                                                         *)
(***************************************************************************)
MaxItems == 3

MarkerPrefix == <<"REASON=", QUOTE, "Blocked:">>

Reasons == { <<"rm -rf /">>, <<"force push">>,
             <<"rm -rf /", SP>>, <<SP, "force push">>,
             <<"rm -rf /", SP, "force push">>, <<SP>>, <<>> }

RawPieces == { MarkerPrefix, <<QUOTE>>, <<NL>>, <<"x">> }

Marker(r) == [kind |-> "marker", text |-> r]
Raw(p) == [kind |-> "raw", text |-> p]

Items == {Marker(r) : r \in Reasons} \cup {Raw(p) : p \in RawPieces}

ItemText(it) ==
    IF it.kind = "marker" THEN MarkerPrefix \o <<SP>> \o it.text \o <<QUOTE>>
    ELSE it.text

\* the text of the hook file
HookText(items) == Concat([i \in 1..Len(items) |-> ItemText(items[i])])

HookStates == {"absent", "io_error", "decode_error", "present"}

(***************************************************************************)
(* re.compile(r'REASON="Blocked:\s*(.+?)"').finditer(content)              *)
(***************************************************************************)
\* the literal REASON="Blocked: starts at position i
PrefixAt(t, i) ==
    /\ i + 2 <= Len(t)
    /\ SubSeq(t, i, i + 2) = MarkerPrefix

\* the positions j .. j+k-1 are all whitespace (\s)
AllSpace(t, j, k) == \A p \in j..(j + k - 1) : p <= Len(t) /\ IsSpace(t[p])

\* a faulty variant: (.+)" takes the group up to the last quote of the line
GroupEndGreedy(t, g) ==
    LET qs == {e \in (g + 1)..Len(t) : t[e] = QUOTE /\ \A p \in g..(e - 1) : t[p] # NL}
    IN  IF g > Len(t) \/ qs = {} THEN 0
        ELSE CHOOSE e \in qs : \A f \in qs : f <= e

\* (.+?)" with the group starting at g: the group ends before the first quote
\* after g, and holds no newline ('.' matches no newline).  0 when it fails.
GroupEnd(t, g) ==
    LET qs == {e \in (g + 1)..Len(t) : t[e] = QUOTE}
    IN  IF g > Len(t) \/ qs = {} THEN 0
        ELSE LET e == CHOOSE e \in qs : \A f \in qs : e <= f
             IN  IF \A p \in g..(e - 1) : t[p] # NL THEN e ELSE 0

\* the match starting at i, after backtracking: \s* is greedy, so the longest
\* run of whitespace that lets the rest match wins.  <<group start, quote>> or <<0, 0>>.
MatchAt(t, i) ==
    IF ~PrefixAt(t, i) THEN <<0, 0>>
    ELSE LET j == i + 3
             ks == {k \in 0..(Len(t) - j + 1) :
                        AllSpace(t, j, k) /\ GroupEnd(t, j + k) # 0}
         IN  IF ks = {} THEN <<0, 0>>
             ELSE LET k == CHOOSE k \in ks : \A m \in ks : m <= k
                  IN  <<j + k, GroupEnd(t, j + k)>>

RECURSIVE FindIter(_, _)
\* the groups of the non-overlapping matches, scanning from position i
FindIter(t, i) ==
    IF i > Len(t) THEN <<>>
    ELSE LET m == MatchAt(t, i)
         IN  IF m[1] = 0 THEN FindIter(t, i + 1)
             ELSE <<SubSeq(t, m[1], m[2] - 1)>> \o FindIter(t, m[2] + 1)

\* f"- NEVER: {reason}" with reason = match.group(1).strip()
FormatRule(group) == <<"- NEVER: ">> \o Strip(group)

\* the rules list built by the loop over the matches
ExtractedRules(t) ==
    LET gs == FindIter(t, 1) IN [n \in 1..Len(gs) |-> FormatRule(gs[n])]

\* a faulty variant: without "if not rules: return defaults"
RulesOrDefaultNoFallback(rules) == Join(NL, rules)

\* the tail of _extract_safety_rules: "if not rules: return defaults"
RulesOrDefault(rules) ==
    IF rules = <<>> THEN _default_safety_rules ELSE Join(NL, rules)

_extract_safety_rules(state, items) ==
    IF state = "absent" THEN _default_safety_rules            \* not os.path.isfile
    ELSE IF state \in {"io_error", "decode_error"}
         THEN _default_safety_rules                           \* except (OSError, UnicodeDecodeError)
    ELSE RulesOrDefault(ExtractedRules(HookText(items)))

(***************************************************************************)
(* load_config.  A ConfigMap is a function from keys to values; a key is a *)
(* name such as <<"CC_", "ENV_VARS">> and a value is a text.               *)
(***************************************************************************)
MaxValueLen == 2

CC(n) == <<"CC_", n>>
EmptyConfig == <<>>

\* the variables a sourced file (or the inherited environment) may set
EnvNames == {CC("ENV_VARS"), <<"OTHER">>}
ValueSymbols == {"v", "=", NL, SP, "CC_"}
EnvValues == SeqsUpTo(ValueSymbols, MaxValueLen)

\* environments: variables with distinct names, in the order 'env' prints them
Environments ==
    {e \in SeqsUpTo([name : EnvNames, value : EnvValues], Cardinality(EnvNames)) :
        \A a, b \in 1..Len(e) : a # b => e[a].name # e[b].name}

\* 'env': one NAME=value per variable, each ended by a newline
EnvOutput(e) ==
    Concat([n \in 1..Len(e) |-> e[n].name \o <<"=">> \o e[n].value \o <<NL>>])

RECURSIVE TextLines(_)
\* the lines of a text in which every line is ended by a newline
TextLines(t) ==
    IF t = <<>> THEN <<>>
    ELSE LET n == CHOOSE n \in 1..Len(t) : t[n] = NL /\ \A m \in 1..(n - 1) : t[m] # NL
         IN  <<SubSeq(t, 1, n - 1)>> \o TextLines(SubSeq(t, n + 1, Len(t)))

StartsWithCC(line) == line # <<>> /\ line[1] = "CC_"

\* 'grep "^CC_"': the lines that start with CC_, each ended by a newline
GrepCC(t) ==
    LET kept == SelectSeq(TextLines(t), StartsWithCC)
    IN  Concat([n \in 1..Len(kept) |-> kept[n] \o <<NL>>])

RECURSIVE Split(_, _)
\* str.split(sep) for a one-symbol separator
Split(t, sep) ==
    IF \A p \in 1..Len(t) : t[p] # sep THEN <<t>>
    ELSE LET n == CHOOSE n \in 1..Len(t) : t[n] = sep /\ \A m \in 1..(n - 1) : t[m] # sep
         IN  <<SubSeq(t, 1, n - 1)>> \o Split(SubSeq(t, n + 1, Len(t)), sep)

Contains(t, c) == \E p \in 1..Len(t) : t[p] = c

\* line.partition("="): <<key, value>>, split at the first "="
Partition(line) ==
    LET n == CHOOSE n \in 1..Len(line) : line[n] = "=" /\ \A m \in 1..(n - 1) : line[m] # "="
    IN  <<SubSeq(line, 1, n - 1), SubSeq(line, n + 1, Len(line))>>

\* config[key] = value
Put(cfg, key, value) ==
    [k \in DOMAIN cfg \cup {key} |-> IF k = key THEN value ELSE cfg[k]]

RECURSIVE ParseLines(_, _)
\* the loop over result.stdout.strip().split("\n")
ParseLines(lines, cfg) ==
    IF lines = <<>> THEN cfg
    ELSE LET line == Head(lines)
         IN  IF Contains(line, "=")
             THEN ParseLines(Tail(lines), Put(cfg, Partition(line)[1], Partition(line)[2]))
             ELSE ParseLines(Tail(lines), cfg)

\* the ConfigMap built from the subprocess's standard output
ParseStdout(stdout) == ParseLines(Split(Strip(stdout), NL), EmptyConfig)

\* how the subprocess may end: normally, TimeoutExpired, FileNotFoundError (no
\* bash), or an exception load_config does not catch (PermissionError on bash,
\* UnicodeDecodeError on the output)
RunOutcomes == {"ok", "timeout", "no_bash", "other_error"}

\* a faulty variant: except subprocess.TimeoutExpired alone
CaughtTimeoutOnly(outcome) == outcome = "timeout"

\* except (subprocess.TimeoutExpired, FileNotFoundError)
Caught(outcome) == outcome \in {"timeout", "no_bash"}

(***************************************************************************)
(* Files and directories.  A path is a sequence of components; a component *)
(* (a file name) is a text, each symbol one character or an extension.     *)
(***************************************************************************)
\* the symbols of file names, in code-point order of the strings they stand for
NameSymbols == <<"-", ".aider.conf.yml", ".aiderignore", ".md", ".txt",
                 "B", "CONVENTIONS", "a", "b", "cc-aider-start.sh">>

Rank(c) == CHOOSE n \in 1..Len(NameSymbols) : NameSymbols[n] = c

\* a < b for strings (Python's str comparison)
NameLess(a, b) ==
    \E n \in 1..(Len(a) + 1) :
        /\ \A m \in 1..(n - 1) : m <= Len(b) /\ a[m] = b[m]
        /\ n <= Len(b)
        /\ n = Len(a) + 1 \/ Rank(a[n]) < Rank(b[n])

RECURSIVE Sorted(_)
\* sorted(os.listdir(d))
Sorted(S) ==
    IF S = {} THEN <<>>
    ELSE LET x == CHOOSE x \in S : \A y \in S : x = y \/ NameLess(x, y)
         IN  <<x>> \o Sorted(S \ {x})

\* agent_file.endswith(".md")
EndsWithMd(name) == name # <<>> /\ name[Len(name)] = ".md"

\* the four artifacts and the file each renderer writes into the project directory
Renderers == <<"settings", "conventions", "ignore", "launcher">>
RendererSet == {Renderers[n] : n \in 1..Len(Renderers)}

ArtifactName(r) ==
    CASE r = "settings" -> <<".aider.conf.yml">>
      [] r = "conventions" -> <<"CONVENTIONS", ".md">>
      [] r = "ignore" -> <<".aiderignore">>
      [] r = "launcher" -> <<"cc-aider-start.sh">>

\* os.path.join(install_dir, "agents")
AgentsDir(inst) == inst \o << <<"agents">> >>

\* the length of the longest common prefix of two paths
CommonLen(a, b) ==
    CHOOSE n \in 0..Len(a) :
        /\ n <= Len(b)
        /\ \A m \in 1..n : a[m] = b[m]
        /\ n = Len(a) \/ n = Len(b) \/ a[n + 1] # b[n + 1]

\* a faulty variant: the path _build_agent_refs prints, whatever the directories
RelPathInstallRooted(path, start) ==
    << <<".cognitive-core">> >> \o SubSeq(path, Len(path) - 1, Len(path))

\* os.path.relpath(path, start), as a sequence of components
RelPath(path, start) ==
    LET c == CommonLen(path, start)
        rel == [n \in 1..(Len(start) - c) |-> <<"..">>] \o SubSeq(path, c + 1, Len(path))
    IN  IF rel = <<>> THEN << <<".">> >> ELSE rel

\* a path as text: its components joined by "/"
PathText(comps) == Join("/", comps)

\* a faulty variant: config.get(key, "")
GetNoDefault(cfg, key, default) == IF key \in DOMAIN cfg THEN cfg[key] ELSE <<>>

\* config.get(key, default)
Get(cfg, key, default) == IF key \in DOMAIN cfg THEN cfg[key] ELSE default

\* "\n".join(lines) + "\n"
Document(lines) == Join(NL, lines) \o <<NL>>

(***************************************************************************)
(* generate_settings                                                       *)
(***************************************************************************)
\* the entries of the agents directory as the renderer sees them
\* (exists: os.path.isdir; files: os.listdir)
ReadEntries(proj, inst, exists, files) ==
    IF ~exists THEN <<>>
    ELSE LET names == SelectSeq(Sorted(files), EndsWithMd)
         IN  [n \in 1..Len(names) |->
                 <<"  - ">> \o PathText(RelPath(AgentsDir(inst) \o <<names[n]>>, proj))]

EditorModelLine(cfg) ==
    <<"editor-model: ollama_chat/">> \o Get(cfg, CC("AIDER_MODEL"), <<"qwen2.5-coder:32b">>)

SettingsLines(cfg) == <<
    <<"# cognitive-core generated Aider configuration">>,
    <<"# Platform: aider + ollama">>,
    <<"# Project: ">> \o Get(cfg, CC("PROJECT_NAME"), <<"project">>),
    <<>>,
    <<"# Model configuration">>,
    <<"model: ollama_chat/">> \o Get(cfg, CC("AIDER_MODEL"), <<"qwen2.5-coder:32b">>),
    EditorModelLine(cfg),
    <<>>,
    <<"# Edit format">>,
    <<"edit-format: ">> \o Get(cfg, CC("AIDER_EDIT_FORMAT"), <<"diff">>),
    <<>>,
    <<"# Auto-lint after edits">>,
    <<"auto-lint: true">>,
    <<"lint-cmd: ">> \o Get(cfg, CC("LINT_COMMAND"), <<"echo no-lint">>),
    <<>>,
    <<"# Auto-test after edits">>,
    <<"auto-test: false">>,
    <<"test-cmd: ">> \o Get(cfg, CC("TEST_COMMAND"), <<"echo no-tests">>),
    <<>>,
    <<"# Read-only context files (always in context)">>,
    <<"read:">>,
    <<"  - ", "CONVENTIONS", ".md">> >>

generate_settings(proj, inst, cfg, exists, files) ==
    Document(SettingsLines(cfg) \o ReadEntries(proj, inst, exists, files))

(***************************************************************************)
(* generate_ignore                                                         *)
(***************************************************************************)
IgnoreBaseline == <<
    <<"# cognitive-core generated .aiderignore">>,
    <<"# Prevents Aider from reading sensitive files">>,
    <<>>,
    <<"# Secrets and credentials">>,
    <<".env">>,
    <<".env.*">>,
    <<"*.pem">>,
    <<"*.key">>,
    <<"credentials.json">>,
    <<"secrets.yaml">>,
    <<"secrets.yml">>,
    <<>>,
    <<"# Runtime logs">>,
    <<".cognitive-core/cognitive-core/security.log">>,
    <<>>,
    <<"# Build artifacts">>,
    <<"node_modules/">>,
    <<"__pycache__/">>,
    <<"*.pyc">>,
    <<".git/">>,
    <<>>,
    <<"# IDE and editor files">>,
    <<".idea/">>,
    <<".vscode/">>,
    <<"*.swp">>,
    <<"*.swo">> >>

\* a faulty variant: str.split(" "), where every single space separates and
\* empty strings are kept
SplitOnEachSpace(t) == Split(t, SP)

RECURSIVE SplitWhitespace(_)
\* str.split(): the maximal runs of characters that are not whitespace
SplitWhitespace(t) ==
    LET u == LStrip(t)
    IN  IF u = <<>> THEN <<>>
        ELSE LET ends == {n \in 1..Len(u) : n = Len(u) \/ IsSpace(u[n + 1])}
                 n == CHOOSE n \in ends : \A m \in ends : n <= m
             IN  <<SubSeq(u, 1, n)>> \o SplitWhitespace(SubSeq(u, n + 1, Len(u)))

\* the lines appended for CC_BLOCKED_PATTERNS
BlockedSection(cfg) ==
    LET blocked == Get(cfg, CC("BLOCKED_PATTERNS"), <<>>)
    IN  IF blocked = <<>> THEN <<>>
        ELSE <<<<>>, <<"# Project-specific blocked patterns">>>> \o SplitWhitespace(blocked)

generate_ignore(cfg) == Document(IgnoreBaseline \o BlockedSection(cfg))

(***************************************************************************)
(* _build_agent_refs                                                       *)
(***************************************************************************)
IsLetter(c) == c \in {"a", "b", "B", "CONVENTIONS"}

UpperFirst(c) ==
    CASE c = "a" -> "A" [] c = "b" -> "B" [] c = "CONVENTIONS" -> "Conventions" [] OTHER -> c

LowerAll(c) ==
    CASE c = "B" -> "b" [] c = "CONVENTIONS" -> "conventions" [] OTHER -> c

\* str.title(): a letter that starts a word is upper-cased, the others lower-cased
Title(t) ==
    [n \in 1..Len(t) |->
        IF ~IsLetter(t[n]) THEN t[n]
        ELSE IF n = 1 \/ ~IsLetter(t[n - 1]) THEN UpperFirst(t[n])
        ELSE LowerAll(t[n])]

\* str.replace(old, new) for a one-symbol old
Replace(t, old, new) ==
    Concat([n \in 1..Len(t) |-> IF t[n] = old THEN new ELSE <<t[n]>>])

\* agent_file.replace(".md", "").replace("-", " ").title()
DisplayName(file) == Title(Replace(Replace(file, ".md", <<>>), "-", <<SP>>))

AgentRef(file) ==
    <<"- **">> \o DisplayName(file) \o <<"**: '">>
        \o <<".cognitive-core", "/", "agents", "/">> \o file \o <<"'">>

NoAgentDocs == <<"No agent documentation installed.">>

_build_agent_refs(exists, files) ==
    IF ~exists THEN NoAgentDocs
    ELSE LET names == SelectSeq(Sorted(files), EndsWithMd)
         IN  IF names = <<>> THEN NoAgentDocs
             ELSE <<"Agent documentation is available for reference:", NL>>
                  \o Join(NL, [n \in 1..Len(names) |-> AgentRef(names[n])])
                  \o <<NL, NL, "Use their guidance when working in their specialist domains.">>

(***************************************************************************)
(* generate_conventions                                                    *)
(***************************************************************************)
\* the configuration values the renderer reads, with their defaults
ConventionKeys == <<
    <<"PROJECT_NAME", <<"project">> >>,
    <<"LANGUAGE", <<"unknown">> >>,
    <<"ARCHITECTURE", <<"none">> >>,
    <<"DATABASE", <<"none">> >>,
    <<"LINT_COMMAND", <<"echo no-lint">> >>,
    <<"TEST_COMMAND", <<"echo no-tests">> >>,
    <<"MAIN_BRANCH", <<"main">> >>,
    <<"COMMIT_FORMAT", <<"conventional">> >>,
    <<"COMMIT_SCOPES", <<"core">> >>,
    <<"SRC_ROOT", <<"src">> >>,
    <<"TEST_ROOT", <<"tests">> >>,
    <<"COMPACT_RULES", <<>> >> >>

\* the local variable read from key number n
Conv(cfg, n) == Get(cfg, CC(ConventionKeys[n][1]), ConventionKeys[n][2])

\* the placeholder {{CC_<NAME>}}
Placeholder(name) == "{{CC_" \o name \o "}}"

\* the bundled template templates/CONVENTIONS.md.tmpl: the text of the direct
\* generation, with a placeholder where that one puts a value
Template == <<
    "# Project Conventions -- ", Placeholder("PROJECT_NAME"),
    "\n\n## Project Identity\n- **Project**: ", Placeholder("PROJECT_NAME"),
    "\n- **Language**: ", Placeholder("LANGUAGE"),
    "\n- **Architecture**: ", Placeholder("ARCHITECTURE"),
    "\n- **Database**: ", Placeholder("DATABASE"),
    "\n\n## Code Standards\n- Follow ", Placeholder("LANGUAGE"),
    " community best practices\n- Run lint before every commit: '", Placeholder("LINT_COMMAND"),
    "'\n- Run tests: '", Placeholder("TEST_COMMAND"),
    "'\n- All new code must have tests\n\n## Git Conventions\n- Main branch: '",
    Placeholder("MAIN_BRANCH"),
    "'\n- Commit format: 'type(scope): subject' (", Placeholder("COMMIT_FORMAT"),
    " format)\n- Scopes: ", Placeholder("COMMIT_SCOPES"),
    "\n- NO AI/tool references in commit messages\n\n## Safety Rules (CRITICAL -- MUST FOLLOW)\n",
    "{{SAFETY_RULES}}",
    "\n\n## Architecture\nPattern: **", Placeholder("ARCHITECTURE"),
    "**\nSource root: '", Placeholder("SRC_ROOT"),
    "'\nTest root: '", Placeholder("TEST_ROOT"),
    "'\n\n## Key Rules\n", Placeholder("COMPACT_RULES"),
    "\n\n## Agent Context\n", "{{AGENT_CONTEXT}}", "\n" >>

RECURSIVE ReplaceKeys(_, _, _)
\* for placeholder, value in replacements.items(): content = content.replace(...)
ReplaceKeys(content, cfg, n) ==
    IF n > Len(ConventionKeys) THEN content
    ELSE ReplaceKeys(Replace(content, Placeholder(ConventionKeys[n][1]), Conv(cfg, n)),
                     cfg, n + 1)

\* the template branch
ConventionsFromTemplate(cfg, rules, refs) ==
    Replace(Replace(ReplaceKeys(Template, cfg, 1), "{{SAFETY_RULES}}", rules),
            "{{AGENT_CONTEXT}}", refs)

\* the direct generation, without a template (the f-string)
ConventionsDirect(cfg, rules, refs) == Concat(<<
    <<"# Project Conventions -- ">>, Conv(cfg, 1),
    <<"\n\n## Project Identity\n- **Project**: ">>, Conv(cfg, 1),
    <<"\n- **Language**: ">>, Conv(cfg, 2),
    <<"\n- **Architecture**: ">>, Conv(cfg, 3),
    <<"\n- **Database**: ">>, Conv(cfg, 4),
    <<"\n\n## Code Standards\n- Follow ">>, Conv(cfg, 2),
    <<" community best practices\n- Run lint before every commit: '">>, Conv(cfg, 5),
    <<"'\n- Run tests: '">>, Conv(cfg, 6),
    <<"'\n- All new code must have tests\n\n## Git Conventions\n- Main branch: '">>,
    Conv(cfg, 7),
    <<"'\n- Commit format: 'type(scope): subject' (">>, Conv(cfg, 8),
    <<" format)\n- Scopes: ">>, Conv(cfg, 9),
    <<"\n- NO AI/tool references in commit messages\n\n## Safety Rules (CRITICAL -- MUST FOLLOW)\n">>,
    rules,
    <<"\n\n## Architecture\nPattern: **">>, Conv(cfg, 3),
    <<"**\nSource root: '">>, Conv(cfg, 10),
    <<"'\nTest root: '">>, Conv(cfg, 11),
    <<"'\n\n## Key Rules\n">>, Conv(cfg, 12),
    <<"\n\n## Agent Context\n">>, refs, <<"\n">> >>)

generate_conventions(cfg, has_template, rules, refs) ==
    IF has_template THEN ConventionsFromTemplate(cfg, rules, refs)
    ELSE ConventionsDirect(cfg, rules, refs)

(***************************************************************************)
(* generate_launcher                                                       *)
(***************************************************************************)
HasAssignment(line) == Strip(line) # <<>> /\ Contains(Strip(line), "=")

_generate_env_exports(env_vars) ==
    IF Strip(env_vars) = <<>>
    THEN <<"# No additional environment variables configured">>
    ELSE LET kept == SelectSeq(Split(Strip(env_vars), NL), HasAssignment)
         IN  IF kept = <<>> THEN <<"# No additional environment variables">>
             ELSE Join(NL, [n \in 1..Len(kept) |-> <<"export ">> \o Strip(kept[n])])

generate_launcher(cfg) == Concat(<<
    <<"#!/bin/bash\n# cognitive-core Aider launcher -- ">>,
    Get(cfg, CC("PROJECT_NAME"), <<"project">>),
    <<"\n# Sets up environment and launches Aider with correct configuration\nset -euo pipefail\n\nSCRIPT_DIR=\"$(cd \"$(dirname \"$0\")\" && pwd)\"\n\n# Load cognitive-core configuration\nif [ -f \"${SCRIPT_DIR}/cognitive-core.conf\" ]; then\n    # shellcheck disable=SC1091\n    source \"${SCRIPT_DIR}/cognitive-core.conf\"\nfi\n\n# Set Ollama base URL\nexport OLLAMA_API_BASE=\"${CC_AIDER_OLLAMA_BASE:-">>,
    Get(cfg, CC("AIDER_OLLAMA_BASE"), <<"http://localhost:11434">>),
    <<"}\"\n\n# Environment variables from config\n">>,
    _generate_env_exports(Get(cfg, CC("ENV_VARS"), <<>>)),
    <<"\n\necho \"=== cognitive-core Aider launcher ===\"\necho \"Project:  ">>,
    Get(cfg, CC("PROJECT_NAME"), <<"project">>),
    <<"\"\necho \"Model:    ${CC_AIDER_MODEL:-">>,
    Get(cfg, CC("AIDER_MODEL"), <<"qwen2.5-coder:32b">>),
    <<"}\"\necho \"Ollama:   ${OLLAMA_API_BASE}\"\necho \"\"\n\n# Launch Aider with project configuration\nexec aider \"$@\"\n">> >>)

(***************************************************************************)
(* main: the renderers a run invokes, and the files they write             *)
(***************************************************************************)
Modes == RendererSet \cup {"all"}

\* an artifact that does not exist, and one left by an earlier installation
NoFile == [exists |-> FALSE, content |-> <<>>, exec |-> FALSE]
OldFile == [exists |-> TRUE, content |-> <<"old">>, exec |-> FALSE]

FreshDisk == [r \in RendererSet |-> NoFile]
OldDisk == [r \in RendererSet |-> OldFile]

\* os.listdir(agents_dir): the project's artifacts are among the entries when
\* the project directory is the agents directory
VisibleFiles(d) ==
    agents_files \cup
        (IF project_dir = AgentsDir(install_dir)
         THEN {ArtifactName(r) : r \in {q \in RendererSet : d[q].exists}}
         ELSE {})

\* the content renderer r produces when the artifacts are d
Render(r, d) ==
    CASE r = "settings" ->
            generate_settings(project_dir, install_dir, config, agents_exists, VisibleFiles(d))
      [] r = "conventions" ->
            generate_conventions(config, template_exists,
                                 _extract_safety_rules(hookState, hook),
                                 _build_agent_refs(agents_exists, VisibleFiles(d)))
      [] r = "ignore" -> generate_ignore(config)
      [] r = "launcher" -> generate_launcher(config)

\* how "with open(path, 'w') as f: f.write(content)" (and the launcher's chmod)
\* may end: open raises and the file is untouched, write raises and the file
\* is left cut short, chmod raises after the file was written
WriteFailures == {"open_failed", "write_failed"}

NoFault == [at |-> "none", how |-> "written", cut |-> 0]

Faults ==
    {NoFault}
    \cup {[at |-> r, how |-> "open_failed", cut |-> 0] : r \in RendererSet}
    \cup {[at |-> r, how |-> "write_failed", cut |-> c] : r \in RendererSet, c \in {0, 1}}
    \cup {[at |-> "launcher", how |-> "chmod_failed", cut |-> 0]}

Outcome(r) == IF fault.at = r THEN fault.how ELSE "written"

FileAfter(r, old, content, outcome) ==
    CASE outcome = "open_failed" -> old
      [] outcome = "write_failed" ->
            [exists |-> TRUE, content |-> SubSeq(content, 1, fault.cut), exec |-> old.exec]
      [] outcome = "chmod_failed" ->
            [exists |-> TRUE, content |-> content, exec |-> old.exec]
      [] outcome = "written" ->
            [exists |-> TRUE, content |-> content,
             exec |-> IF r = "launcher" THEN TRUE ELSE old.exec]

\* a faulty variant: the exception of a renderer is caught and the loop goes on
PcAfterSwallowed(outcome) == "running"

\* an exception of a renderer is not caught: it ends the run
PcAfter(outcome) == IF outcome = "written" THEN "running" ELSE "failed"

\* generators = {"settings": ..., "conventions": ..., "ignore": ..., "launcher": ...}
\* and the branch on args.mode
Generators(m) == IF m = "all" THEN Renderers ELSE <<m>>

Range(q) == {q[n] : n \in 1..Len(q)}
Repeated == <<"repeated">>

RanAfter(r) ==
    IF ran = Repeated \/ r \in Range(ran) THEN Repeated ELSE Append(ran, r)

\* the invocations a session makes: as many as its budget, and in a session
\* without repetition either mode "all" at the start or renderers not yet run
Allowed(m) ==
    /\ budget > 0
    /\ norepeat => IF m = "all" THEN ran = <<>> ELSE m \notin Range(ran)

\* main() up to the loop: the arguments are parsed and the configuration loaded
Invoke ==
    /\ pc = "idle"
    /\ \E m \in Modes :
          /\ Allowed(m)
          /\ mode' = m
          /\ todo' = Generators(m)
    /\ budget' = budget - 1
    /\ pc' = "running"
    /\ invoked' = <<>>
    /\ before' = disk
    /\ UNCHANGED <<hookVars, safety_rules, loadVars, config, fsVars,
                   fault, norepeat, disk0, disk, ran, last, twice>>

\* gen_fn(args.project_dir, args.install_dir, config) for renderer r
Generate(r) ==
    /\ pc = "running"
    /\ todo # <<>>
    /\ Head(todo) = r
    /\ LET content == Render(r, disk)
           o == Outcome(r)
       IN  /\ disk' = [disk EXCEPT ![r] = FileAfter(r, disk[r], content, o)]
           /\ invoked' = Append(invoked, [gen |-> r, outcome |-> o, content |-> content])
           /\ pc' = PcAfter(o)
           /\ IF o = "written"
              THEN /\ ran' = RanAfter(r)
                   /\ last' = r
                   /\ twice' = IF last = r THEN r ELSE "none"
              ELSE UNCHANGED <<ran, last, twice>>
    /\ todo' = Tail(todo)
    /\ UNCHANGED <<hookVars, safety_rules, loadVars, config, fsVars,
                   sessionVars, mode, before>>

GenerateSettings == Generate("settings")
GenerateConventions == Generate("conventions")
GenerateIgnore == Generate("ignore")
GenerateLauncher == Generate("launcher")

\* main() returns
Exit ==
    /\ pc = "running"
    /\ todo = <<>>
    /\ pc' = "idle"
    /\ mode' = "none"
    /\ invoked' = <<>>
    /\ before' = disk
    /\ UNCHANGED <<hookVars, safety_rules, loadVars, config, fsVars,
                   sessionVars, disk, todo, ran, last, twice>>

NextMain ==
    \/ Invoke
    \/ GenerateSettings
    \/ GenerateConventions
    \/ GenerateIgnore
    \/ GenerateLauncher
    \/ Exit

\* the values of the variables an operation under study alone does not use
LoaderIdle ==
    /\ config_file = "empty"
    /\ run_outcome = "not_run"
    /\ environ = <<>>

ProgramIdle ==
    /\ project_dir = <<>>
    /\ install_dir = <<>>
    /\ agents_exists = FALSE
    /\ agents_files = {}
    /\ template_exists = FALSE
    /\ fault = NoFault
    /\ budget = 0
    /\ norepeat = FALSE
    /\ disk0 = FreshDisk
    /\ disk = FreshDisk
    /\ mode = "none"
    /\ todo = <<>>
    /\ invoked = <<>>
    /\ before = FreshDisk
    /\ ran = <<>>
    /\ last = "none"
    /\ twice = "none"

\* the start of a session of n invocations on the artifacts d
SessionStart(d, n, each_once) ==
    /\ pc = "idle"
    /\ disk = d
    /\ disk0 = d
    /\ before = d
    /\ budget = n
    /\ norepeat = each_once
    /\ mode = "none"
    /\ todo = <<>>
    /\ invoked = <<>>
    /\ ran = <<>>
    /\ last = "none"
    /\ twice = "none"
    /\ safety_rules = <<>>
    /\ LoaderIdle

ProjDir == << <<"proj">> >>
UsualInstallDir == << <<"proj">>, <<".cognitive-core">> >>
OtherInstallDir == << <<"opt">>, <<"cognitive-core">> >>

\* the usual layout: the install directory is <project>/.cognitive-core
UsualLayout ==
    /\ project_dir = ProjDir
    /\ install_dir = UsualInstallDir

\* <<project directory, install directory>>: the usual layout, an install
\* directory elsewhere, and a project that is the agents directory itself
Layouts == { <<ProjDir, UsualInstallDir>>,
             <<ProjDir, OtherInstallDir>>,
             <<AgentsDir(UsualInstallDir), UsualInstallDir>> }

\* a configuration such as the example of the specification
DemoConfig == (CC("PROJECT_NAME") :> <<"demo">>) @@ (CC("AIDER_MODEL") :> <<"llama3">>)

SampleHook == <<Marker(<<"rm -rf /">>), Raw(<<NL>>), Marker(<<"force push">>)>>

\* the states of the file system the sessions below start from
InitFiles ==
    /\ \E l \in Layouts : project_dir = l[1] /\ install_dir = l[2]
    /\ agents_exists \in BOOLEAN
    /\ agents_files \in {{}, {<<"a", "-", "b", ".md">>}}
    /\ ~agents_exists => agents_files = {} /\ project_dir # AgentsDir(install_dir)
    /\ template_exists \in BOOLEAN
    /\ hookState = "present"
    /\ hook = SampleHook
    /\ config = DemoConfig

(***************************************************************************)
(* SpecRun: one invocation in every mode, with every failure of a write    *)
(***************************************************************************)
InitRun ==
    /\ InitFiles
    /\ fault \in Faults
    /\ \E d \in {FreshDisk, OldDisk} : SessionStart(d, 1, FALSE)

SpecRun == InitRun /\ [][NextMain]_vars

(***************************************************************************)
(* SpecTwice: sessions of MaxRuns invocations in any modes                 *)
(***************************************************************************)
MaxRuns == 2

InitTwice ==
    /\ InitFiles
    /\ fault = NoFault
    /\ \E d \in {FreshDisk, OldDisk} : SessionStart(d, MaxRuns, FALSE)

SpecTwice == InitTwice /\ [][NextMain]_vars

(***************************************************************************)
(* SpecPerm: sessions that invoke the four renderers one by one in any     *)
(* order, or all of them with mode "all"                                   *)
(***************************************************************************)
InitPerm ==
    /\ InitFiles
    /\ fault = NoFault
    /\ \E d \in {FreshDisk, OldDisk} : SessionStart(d, Len(Renderers), TRUE)

SpecPerm == InitPerm /\ [][NextMain]_vars

(***************************************************************************)
(* SpecIgnore: one invocation for every value of CC_BLOCKED_PATTERNS up to *)
(* MaxPatternLen symbols                                                   *)
(***************************************************************************)
MaxPatternLen == 3

PatternSymbols == {SP, "\t", "*.secret", "build/"}

\* a project in the usual layout with no agents, template or hook installed
PlainProject ==
    /\ UsualLayout
    /\ agents_exists = FALSE
    /\ agents_files = {}
    /\ template_exists = FALSE
    /\ hookState = "absent"
    /\ hook = <<>>
    /\ fault = NoFault

InitIgnore ==
    /\ PlainProject
    /\ \/ config = EmptyConfig
       \/ \E v \in SeqsUpTo(PatternSymbols, MaxPatternLen) :
             config = (CC("BLOCKED_PATTERNS") :> v)
    /\ SessionStart(FreshDisk, 1, FALSE)

SpecIgnore == InitIgnore /\ [][NextMain]_vars

(***************************************************************************)
(* SpecSettings: one invocation for every pair of directories and every    *)
(* listing of the agents directory                                         *)
(***************************************************************************)
Dirs == {ProjDir, UsualInstallDir, OtherInstallDir, AgentsDir(UsualInstallDir)}

AgentFiles == { <<"a", ".md">>, <<"B", ".md">>, <<"a", "-", "b", ".md">>, <<"a", ".txt">> }

InitSettings ==
    /\ project_dir \in Dirs
    /\ install_dir \in Dirs
    /\ agents_exists \in BOOLEAN
    /\ agents_files \in SUBSET AgentFiles
    /\ ~agents_exists => agents_files = {} /\ project_dir # AgentsDir(install_dir)
    /\ template_exists = FALSE
    /\ hookState = "absent"
    /\ hook = <<>>
    /\ fault = NoFault
    /\ config \in {EmptyConfig, DemoConfig}
    /\ \E d \in {FreshDisk, OldDisk} : SessionStart(d, 1, FALSE)

SpecSettings == InitSettings /\ [][NextMain]_vars

(***************************************************************************)
(* SpecDefaults: one invocation for every ConfigMap that holds at most     *)
(* MaxPresent of the keys the renderers read, with and without template    *)
(***************************************************************************)
MaxPresent == 2

\* the keys the renderers read with a default that is not empty
ReadKeys ==
    {CC(ConventionKeys[n][1]) : n \in {m \in 1..Len(ConventionKeys) : ConventionKeys[m][2] # <<>>}}
    \cup {CC("AIDER_MODEL"), CC("AIDER_EDIT_FORMAT"), CC("AIDER_OLLAMA_BASE")}

InitDefaults ==
    /\ UsualLayout
    /\ agents_exists = FALSE
    /\ agents_files = {}
    /\ template_exists \in BOOLEAN
    /\ hookState = "absent"
    /\ hook = <<>>
    /\ fault = NoFault
    /\ \E present \in {K \in SUBSET ReadKeys : Cardinality(K) <= MaxPresent} :
          config = [key \in present |-> <<"x">>]
    /\ SessionStart(FreshDisk, 1, FALSE)

SpecDefaults == InitDefaults /\ [][NextMain]_vars

(***************************************************************************)
(* SpecExtract: _extract_safety_rules on every hook file up to MaxItems     *)
(***************************************************************************)
InitExtract ==
    /\ pc = "start"
    /\ hookState \in HookStates
    /\ hook \in SeqsUpTo(Items, MaxItems)
    /\ safety_rules = <<>>
    /\ LoaderIdle
    /\ config = EmptyConfig
    /\ ProgramIdle

ExtractSafetyRules ==
    /\ pc = "start"
    /\ safety_rules' = _extract_safety_rules(hookState, hook)
    /\ pc' = "extracted"
    /\ UNCHANGED <<hookVars, loadVars, config, fsVars, sessionVars, runVars>>

NextExtract == ExtractSafetyRules

SpecExtract == InitExtract /\ [][NextExtract]_vars

(***************************************************************************)
(* SpecLoad: load_config on every path state, outcome and environment      *)
(***************************************************************************)
ConfigFileStates == {"empty", "not_a_file", "file"}

InitLoad ==
    /\ pc = "start"
    /\ config_file \in ConfigFileStates
    /\ run_outcome = "not_run"
    /\ environ = <<>>
    /\ config = EmptyConfig
    /\ hookState = "absent"
    /\ hook = <<>>
    /\ safety_rules = <<>>
    /\ ProgramIdle

\* if not config_file or not os.path.isfile(config_file): return {}
LoadNoFile ==
    /\ pc = "start"
    /\ config_file # "file"
    /\ config' = EmptyConfig
    /\ pc' = "loaded"
    /\ UNCHANGED <<run_outcome, environ, config_file, hookVars, safety_rules, fsVars, sessionVars, runVars>>

\* subprocess.run returns: parse its output
LoadParsed ==
    /\ pc = "start"
    /\ config_file = "file"
    /\ \E e \in Environments :
          /\ environ' = e
          /\ config' = ParseStdout(GrepCC(EnvOutput(e)))
    /\ run_outcome' = "ok"
    /\ pc' = "loaded"
    /\ UNCHANGED <<config_file, hookVars, safety_rules, fsVars, sessionVars, runVars>>

\* subprocess.run raises: {} when the exception is caught, else it propagates
LoadRaised ==
    /\ pc = "start"
    /\ config_file = "file"
    /\ \E o \in RunOutcomes \ {"ok"} :
          /\ run_outcome' = o
          /\ pc' = IF Caught(o) THEN "loaded" ELSE "failed"
    /\ config' = EmptyConfig
    /\ UNCHANGED <<environ, config_file, hookVars, safety_rules, fsVars, sessionVars, runVars>>

NextLoad == LoadNoFile \/ LoadParsed \/ LoadRaised

SpecLoad == InitLoad /\ [][NextLoad]_vars

(***************************************************************************)
(* Claims about _extract_safety_rules (checked under SpecExtract)          *)
(***************************************************************************)
RECURSIVE SplitLines(_)
\* the lines of a text
SplitLines(t) ==
    IF \A p \in 1..Len(t) : t[p] # NL THEN <<t>>
    ELSE LET n == CHOOSE n \in 1..Len(t) : t[n] = NL /\ \A m \in 1..(n - 1) : t[m] # NL
         IN  <<SubSeq(t, 1, n - 1)>> \o SplitLines(SubSeq(t, n + 1, Len(t)))

\* the pattern REASON="Blocked:\s*(.+?)" matches somewhere in t: the prefix,
\* whitespace, one or more characters other than a newline, a quote
HasMatch(t) ==
    \E i \in 1..Len(t), g \in 1..Len(t), e \in 1..Len(t) :
        /\ PrefixAt(t, i)
        /\ g >= i + 3
        /\ AllSpace(t, i + 3, g - (i + 3))
        /\ e > g
        /\ t[e] = QUOTE
        /\ \A p \in g..(e - 1) : t[p] # NL

NoRuleExtractable == hookState # "present" \/ ~HasMatch(HookText(hook))

\* C1: whenever no rule can be extracted (hook absent, unreadable, or without
\* any match) the extractor returns the twelve default rules in their order,
\* and in every hook-file state the safety-rules block is not empty.
C1_DefaultsWhenNoRule ==
    pc = "extracted" =>
        /\ NoRuleExtractable =>
              /\ SplitLines(safety_rules) = DefaultRuleLines
              /\ Len(SplitLines(safety_rules)) = 12
        /\ safety_rules # <<>>

\* a readable hook that holds an unclosed marker prefix and no match
C1_Witness ==
    /\ pc = "extracted"
    /\ hookState = "present"
    /\ \E n \in 1..Len(hook) : hook[n] = Raw(MarkerPrefix)
    /\ ~HasMatch(HookText(hook))
    /\ SplitLines(safety_rules) = DefaultRuleLines

IsMarker(it) == it.kind = "marker"

\* the reasons of the marker items, in order of appearance
MarkerReasons(items) ==
    LET ms == SelectSeq(items, IsMarker) IN [n \in 1..Len(ms) |-> ms[n].text]

\* every marker prefix of the text belongs to a marker item, and there is one
NoStrayPrefix(items) ==
    /\ \A n \in 1..Len(items) : items[n] # Raw(MarkerPrefix)
    /\ \E n \in 1..Len(items) : IsMarker(items[n])

\* the original statement of C2: one rule "NEVER: <reason>" per marker
C2_Original ==
    (/\ pc = "extracted"
     /\ hookState = "present"
     /\ NoStrayPrefix(hook)
     /\ \A n \in 1..Len(hook) :
          IsMarker(hook[n]) => hook[n].text # <<>> /\ Strip(hook[n].text) = hook[n].text)
    => SplitLines(safety_rules) =
          [n \in 1..Len(MarkerReasons(hook)) |-> <<"NEVER: ">> \o MarkerReasons(hook)[n]]

\* C2 (amended): a hook text with n >= 1 markers REASON="Blocked: <reason>", each
\* reason not blank, and no other marker prefix, yields n lines, one per marker in
\* order of appearance, each "- NEVER: <reason>" with the reason trimmed.
C2_OneBulletPerMarker ==
    (/\ pc = "extracted"
     /\ hookState = "present"
     /\ NoStrayPrefix(hook)
     /\ \A n \in 1..Len(hook) : IsMarker(hook[n]) => Strip(hook[n].text) # <<>>)
    => /\ Len(SplitLines(safety_rules)) = Len(MarkerReasons(hook))
       /\ SplitLines(safety_rules) =
             [n \in 1..Len(MarkerReasons(hook)) |->
                 <<"- NEVER: ">> \o Strip(MarkerReasons(hook)[n])]

\* the two markers of the example, on two lines
C2_Witness ==
    /\ pc = "extracted"
    /\ hookState = "present"
    /\ hook = <<Marker(<<"rm -rf /">>), Raw(<<NL>>), Marker(<<"force push">>)>>
    /\ safety_rules = <<"- NEVER: ", "rm -rf /", NL, "- NEVER: ", "force push">>

(***************************************************************************)
(* Claims about load_config (checked under SpecLoad)                       *)
(***************************************************************************)
\* C3: an empty path, a path that is no existing file, a timeout and a missing
\* bash all make load_config return the empty ConfigMap without an error.
C3_UnavailableGivesEmpty ==
    (/\ pc # "start"
     /\ \/ config_file \in {"empty", "not_a_file"}
        \/ run_outcome \in {"timeout", "no_bash"})
    => pc = "loaded" /\ config = EmptyConfig

\* the evaluation found no bash, and the run goes on with the empty map
C3_Witness ==
    /\ pc = "loaded"
    /\ config_file = "file"
    /\ run_outcome = "no_bash"
    /\ config = EmptyConfig

\* the variables of the environment whose name starts with CC_
CCVars(e) == {n \in 1..Len(e) : StartsWithCC(e[n].name)}

\* C4: the ConfigMap holds exactly the CC_ variables of the environment the
\* evaluation produced, each with its complete value.
C4_ExactlyCCVarsInFull ==
    (pc = "loaded" /\ run_outcome = "ok")
    => /\ DOMAIN config = {environ[n].name : n \in CCVars(environ)}
       /\ \A n \in CCVars(environ) : config[environ[n].name] = environ[n].value

(***************************************************************************)
(* Claims about main (checked under SpecRun)                               *)
(***************************************************************************)
\* the renderers invoked so far in this run, in order
InvokedGens == [k \in 1..Len(invoked) |-> invoked[k].gen]

\* C10: mode "all" invokes settings, conventions, ignore, launcher in this
\* order; when the write of the k-th fails the run ends there with an error,
\* the artifacts of the renderers before k hold their new content and the
\* artifacts of the renderers after k are as they were before the run.
C10_FailedWriteEndsRun ==
    mode = "all" =>
        /\ InvokedGens = SubSeq(Renderers, 1, Len(invoked))
        /\ \A k \in 1..Len(invoked) :
              invoked[k].outcome # "written" =>
                 /\ k = Len(invoked)
                 /\ pc = "failed"
                 /\ \A j \in 1..(k - 1) :
                       /\ disk[Renderers[j]].exists
                       /\ disk[Renderers[j]].content = invoked[j].content
                 /\ \A j \in (k + 1)..Len(Renderers) :
                       disk[Renderers[j]] = before[Renderers[j]]

\* the write of .aiderignore, the third artifact, failed half way in a project
\* that had all four artifacts
C10_Witness ==
    /\ mode = "all"
    /\ pc = "failed"
    /\ before = OldDisk
    /\ Len(invoked) = 3
    /\ invoked[3].outcome = "write_failed"
    /\ disk["settings"].content = invoked[1].content
    /\ disk["conventions"].content = invoked[2].content
    /\ disk["launcher"] = OldFile

(***************************************************************************)
(* Claims about repeated and reordered invocations (checked under          *)
(* SpecTwice and SpecPerm)                                                 *)
(***************************************************************************)
\* C8: a renderer invoked a second time, nothing else having changed since its
\* first invocation, writes an artifact identical to the one it wrote first.
C8_SecondInvocationWritesSame ==
    twice # "none" => disk[twice].content = before[twice].content

\* the artifacts after renderer r wrote its artifact on the artifacts d
Written(r, d) == [d EXCEPT ![r] = FileAfter(r, d[r], Render(r, d), "written")]

\* the artifacts after the renderers ran in the order of mode "all"
FixedOrder(d) ==
    Written("launcher", Written("ignore", Written("conventions", Written("settings", d))))

\* C9: the four renderers, run once each in any order from the same initial
\* artifacts, leave the artifact contents that the order of mode "all" leaves.
C9_AnyOrderSameArtifacts ==
    (ran # Repeated /\ Len(ran) = Len(Renderers))
    => \A r \in RendererSet : disk[r].content = FixedOrder(disk0)[r].content

(***************************************************************************)
(* Claims about generate_ignore (checked under SpecIgnore)                 *)
(***************************************************************************)
\* the content the first renderer of the current run produced
FirstContent == invoked[1].content

\* the first renderer of the current run was r, and it wrote its artifact
RanFirst(r) ==
    /\ invoked # <<>>
    /\ invoked[1].gen = r
    /\ invoked[1].outcome = "written"

\* the positions of a text where a run of characters other than whitespace starts
TokenStarts(t) ==
    {p \in 1..Len(t) : ~IsSpace(t[p]) /\ (p = 1 \/ IsSpace(t[p - 1]))}

\* the whitespace-delimited tokens of a text, in their order
Tokens(t) ==
    [k \in 1..Cardinality(TokenStarts(t)) |->
        LET p == CHOOSE p \in TokenStarts(t) :
                    Cardinality({q \in TokenStarts(t) : q < p}) = k - 1
            e == CHOOSE e \in p..Len(t) :
                    /\ \A m \in p..e : ~IsSpace(t[m])
                    /\ e = Len(t) \/ IsSpace(t[e + 1])
        IN  SubSeq(t, p, e)]

\* the lines of a document that ends with a newline
DocLines(doc) == SubSeq(SplitLines(doc), 1, Len(SplitLines(doc)) - 1)

\* C6: the ignore document starts with the baseline lines; a present value of
\* CC_BLOCKED_PATTERNS adds one labeled section whose lines are the
\* whitespace-delimited tokens of the value in order; an absent or empty
\* value leaves the baseline alone.
C6_BaselineThenTokens ==
    RanFirst("ignore") =>
        LET doc == FirstContent
            key == CC("BLOCKED_PATTERNS")
        IN  /\ doc # <<>>
            /\ doc[Len(doc)] = NL
            /\ SubSeq(DocLines(doc), 1, Len(IgnoreBaseline)) = IgnoreBaseline
            /\ disk["ignore"].content = doc
            /\ IF key \in DOMAIN config /\ config[key] # <<>>
               THEN DocLines(doc) =
                       IgnoreBaseline
                       \o << <<>>, <<"# Project-specific blocked patterns">> >>
                       \o Tokens(config[key])
               ELSE DocLines(doc) = IgnoreBaseline

\* the value "*.secret build/" gave the two pattern lines *.secret and build/
C6_Witness ==
    /\ RanFirst("ignore")
    /\ config = (CC("BLOCKED_PATTERNS") :> <<"*.secret", SP, "build/">>)
    /\ SubSeq(DocLines(disk["ignore"].content), Len(IgnoreBaseline) + 1,
              Len(DocLines(disk["ignore"].content)))
          = << <<>>, <<"# Project-specific blocked patterns">>, <<"*.secret">>, <<"build/">> >>

(***************************************************************************)
(* Claims about generate_settings (checked under SpecSettings)             *)
(***************************************************************************)
\* the lines of a document that start with the symbol c, without that symbol
LinesAfter(doc, c) ==
    LET ls == DocLines(doc)
    IN  {Tail(ls[n]) : n \in {m \in 1..Len(ls) : ls[m] # <<>> /\ ls[m][1] = c}}

\* the entries of the read-only list: the lines after the line "read:"
ReadList(doc) ==
    LET ls == DocLines(doc)
        at == CHOOSE n \in 1..Len(ls) : ls[n] = <<"read:">>
    IN  [n \in 1..(Len(ls) - at) |-> Tail(ls[at + n])]

RECURSIVE Resolve(_, _)
\* the path a relative path names when followed from directory dir
Resolve(dir, rel) ==
    IF rel = <<>> THEN dir
    ELSE IF Head(rel) = <<"..">> THEN Resolve(SubSeq(dir, 1, Len(dir) - 1), Tail(rel))
    ELSE IF Head(rel) = <<".">> THEN Resolve(dir, Tail(rel))
    ELSE Resolve(Append(dir, Head(rel)), Tail(rel))

\* the .md entries of the agents directory when the current run started
MdFiles ==
    IF agents_exists THEN {f \in VisibleFiles(before) : EndsWithMd(f)} ELSE {}

\* C7: the settings document names one model for both roles, CC_AIDER_MODEL
\* or the default; its read-only list is CONVENTIONS.md and then every .md
\* entry of <install-dir>/agents once, as a path relative to the project
\* directory, in the order of the file names; without the agents directory
\* the list is CONVENTIONS.md alone.
C7_OneModelAndReadList ==
    RanFirst("settings") =>
        LET doc == FirstContent
            key == CC("AIDER_MODEL")
            model == IF key \in DOMAIN config THEN config[key] ELSE <<"qwen2.5-coder:32b">>
            list == ReadList(doc)
            path(n) == Resolve(project_dir, Split(list[n], "/"))
        IN  /\ LinesAfter(doc, "model: ollama_chat/") = {model}
            /\ LinesAfter(doc, "editor-model: ollama_chat/") = {model}
            /\ Len(list) = 1 + Cardinality(MdFiles)
            /\ list[1] = <<"CONVENTIONS", ".md">>
            /\ \A f \in MdFiles :
                  \E n \in 2..Len(list) : path(n) = AgentsDir(install_dir) \o <<f>>
            /\ \A n \in 2..Len(list) : \A m \in (n + 1)..Len(list) :
                  NameLess(path(n)[Len(path(n))], path(m)[Len(path(m))])
            /\ disk["settings"].content = doc

\* an install directory outside the project, with three .md files and one other
C7_Witness ==
    /\ RanFirst("settings")
    /\ project_dir = ProjDir
    /\ install_dir = OtherInstallDir
    /\ agents_files = AgentFiles
    /\ config = DemoConfig
    /\ ReadList(disk["settings"].content) =
          << <<"CONVENTIONS", ".md">>,
             <<"..", "/", "opt", "/", "cognitive-core", "/", "agents", "/", "B", ".md">>,
             <<"..", "/", "opt", "/", "cognitive-core", "/", "agents", "/", "a", "-", "b", ".md">>,
             <<"..", "/", "opt", "/", "cognitive-core", "/", "agents", "/", "a", ".md">> >>

(***************************************************************************)
(* Claims about the defaults (checked under SpecDefaults)                  *)
(***************************************************************************)
\* the documented default of each recognized key
DocumentedDefault ==
    (CC("AIDER_MODEL") :> "qwen2.5-coder:32b")
    @@ (CC("AIDER_EDIT_FORMAT") :> "diff")
    @@ (CC("LINT_COMMAND") :> "echo no-lint")
    @@ (CC("TEST_COMMAND") :> "echo no-tests")
    @@ (CC("PROJECT_NAME") :> "project")
    @@ (CC("LANGUAGE") :> "unknown")
    @@ (CC("ARCHITECTURE") :> "none")
    @@ (CC("DATABASE") :> "none")
    @@ (CC("MAIN_BRANCH") :> "main")
    @@ (CC("COMMIT_FORMAT") :> "conventional")
    @@ (CC("COMMIT_SCOPES") :> "core")
    @@ (CC("SRC_ROOT") :> "src")
    @@ (CC("TEST_ROOT") :> "tests")
    @@ (CC("AIDER_OLLAMA_BASE") :> "http://localhost:11434")

\* the keys with a documented default that each renderer consumes
Consumes(r) ==
    CASE r = "settings" ->
            {CC("AIDER_MODEL"), CC("AIDER_EDIT_FORMAT"), CC("LINT_COMMAND"),
             CC("TEST_COMMAND"), CC("PROJECT_NAME")}
      [] r = "conventions" ->
            {CC("PROJECT_NAME"), CC("LANGUAGE"), CC("ARCHITECTURE"), CC("DATABASE"),
             CC("LINT_COMMAND"), CC("TEST_COMMAND"), CC("MAIN_BRANCH"),
             CC("COMMIT_FORMAT"), CC("COMMIT_SCOPES"), CC("SRC_ROOT"), CC("TEST_ROOT")}
      [] r = "ignore" -> {}
      [] r = "launcher" ->
            {CC("AIDER_MODEL"), CC("AIDER_OLLAMA_BASE"), CC("PROJECT_NAME")}

\* C5: whatever keys the ConfigMap lacks, every renderer invoked writes its
\* document, and the document holds the documented default of every key the
\* renderer consumes and the ConfigMap lacks.
C5_AbsentKeyGivesDefault ==
    \A k \in 1..Len(invoked) :
        LET r == invoked[k].gen
        IN  /\ invoked[k].outcome = "written"
            /\ disk[r].exists
            /\ disk[r].content = invoked[k].content
            /\ \A key \in Consumes(r) \ DOMAIN config :
                  Contains(invoked[k].content, DocumentedDefault[key])

\* the empty ConfigMap and no template: the conventions document was written
\* with the defaults of language, main branch and test root
C5_Witness ==
    /\ config = EmptyConfig
    /\ ~template_exists
    /\ RanFirst("conventions")
    /\ Contains(disk["conventions"].content, "unknown")
    /\ Contains(disk["conventions"].content, "main")
    /\ Contains(disk["conventions"].content, "tests")

====
